---- MODULE Spec2Model ----
(***************************************************************************)
(* A model of gemini-commit-message (src/src/main.rs): one run of main,    *)
(* statement by statement, with the collaborators (environment file,       *)
(* repository, remote endpoint, clipboard) as nondeterministic inputs.     *)
(*                                                                         *)
(* Text that the program inspects character by character (the text of a    *)
(* response part, the commit message) is a sequence of one-character       *)
(* strings.  Text that it only passes along (keys, the diff, fixed output  *)
(* lines) is a TLA+ string.  A formatted line is the tuple of its pieces.  *)
(***************************************************************************)
EXTENDS Naturals, Sequences, FiniteSets

\* ---------------------------------------------------------------- bounds
MaxTextLen == 4
MaxParts == 2
MaxCands == 2

\* ------------------------------------------------------- absent values
\* An optional string is the string or None.  An optional structured value
\* (Option<Content>, a variable not yet assigned) is the empty tuple or the
\* one-element tuple of the value.
None == "None"
NotUnicode == "NotUnicode"
Nothing == <<>>
Some(x) == <<x>>

\* --------------------------------------------------------- input sets
Chars == {"f", " ", "\n"}
Whitespace == {" ", "\n"}

SeqsUpTo(S, n) == UNION {[1..k -> S] : k \in 0..n}

Texts == SeqsUpTo(Chars, MaxTextLen)
\* Parts after the first and candidates after the first vary over sets
\* disjoint from what position 0 can hold, so that reading them shows.
OtherTexts == {<<"x">>}

\* argv: the program name, then the arguments given by the user.
ArgLists == {<<"prog">>, <<"prog", "k1">>, <<"prog", "k1", "k2">>}
\* GEMINI_API_KEY in the environment the process was started with.
ProcEnvs == {None, NotUnicode, "k2"}
\* The .env file: no file at all, a file that does not parse, a file without
\* the key, a file with it.
NoFile == "NoFile"
BadFile == "BadFile"
EnvFiles == {NoFile, BadFile, None, "k3"}
\* The repository at the current directory: none, one without a commit,
\* one whose staged patch is not UTF-8, or one with a staged patch (which
\* is empty when nothing is staged).
NoRepo == "NoRepo"
NoHead == "NoHead"
BadUtf8 == "BadUtf8"
Diffs == {"", "diff1"}
Repos == {NoRepo, NoHead, BadUtf8} \cup Diffs

VARIABLES
    pc,             \* the statement of main (or of the generator) to run next
    outcome,        \* "running", or how the process ended
    args,           \* env::args()
    envFile,        \* the .env file
    envKey,         \* GEMINI_API_KEY in the process environment
    repo,           \* the repository at the current directory
    diff,           \* main's diff
    api_key,        \* main's api_key
    prompto,        \* main's prompto
    requests,       \* the HTTP requests issued, in order
    response,       \* the status the endpoint answered with, if it answered
    bodyReads,      \* how many times a response body was decoded
    body,           \* the generator's body: GeminiResponse
    result,         \* what generate_commit_message returns
    message,        \* main's message
    stdout,         \* lines printed with println!
    stderr,         \* lines printed with eprintln!, and the runtime's report
    clipCalls,      \* the arguments of the calls of copy_to_clip, in order
    clipboard       \* the text on the system clipboard

vars == <<pc, outcome, args, envFile, envKey, repo, diff, api_key, prompto,
          requests, response, bodyReads, body, result, message, stdout,
          stderr, clipCalls, clipboard>>

inputs == <<args, envFile, repo>>
genState == <<requests, response, bodyReads, body, result>>

Init ==
    /\ pc = "dotenv"
    /\ outcome = "running"
    /\ args \in ArgLists
    /\ envFile \in EnvFiles
    /\ envKey \in ProcEnvs
    /\ repo \in Repos
    /\ diff = None
    /\ api_key = None
    /\ prompto = Nothing
    /\ requests = <<>>
    /\ response = Nothing
    /\ bodyReads = 0
    /\ body = Nothing
    /\ result = Nothing
    /\ message = Nothing
    /\ stdout = <<>>
    /\ stderr = <<>>
    /\ clipCalls = <<>>
    /\ clipboard = Nothing

\* ------------------------------------------------------ process endings
\* "success": main returned Ok(()), exit status 0.  "failure": main returned
\* Err(e), the runtime prints the error and the exit status is 1.  "panic":
\* the process aborted.
Exit(o) ==
    /\ pc' = "done"
    /\ outcome' = o

\* ------------------------------------------------------------- dotenv()
\* dotenvy::dotenv(): Err when there is no .env file or it does not parse;
\* otherwise every variable of the file that the environment does not
\* already hold is set.
\* main: dotenv().expect(".env file not fount")
LoadEnv ==
    /\ pc = "dotenv"
    /\ IF envFile \in {NoFile, BadFile}
       THEN /\ Exit("panic")
            /\ stderr' = Append(stderr, <<"panicked: ", ".env file not fount">>)
            /\ UNCHANGED envKey
       ELSE /\ envKey' = IF envKey = None THEN envFile ELSE envKey
            /\ pc' = "get_git_diff"
            /\ UNCHANGED <<outcome, stderr>>
    /\ UNCHANGED <<inputs, diff, api_key, prompto, genState, message, stdout,
                   clipCalls, clipboard>>

\* -------------------------------------------------------- get_git_diff
\* What get_git_diff does in repository r: it panics when the repository
\* cannot be opened, returns Err when HEAD does not resolve or the patch is
\* not UTF-8, and otherwise returns the staged patch.
get_git_diff(r) ==
    CASE r = NoRepo  -> [kind |-> "panic", val |-> "faild to open"]
      [] r = NoHead  -> [kind |-> "Err", val |-> "reference not found"]
      [] r = BadUtf8 -> [kind |-> "Err", val |-> "invalid utf-8 sequence"]
      [] OTHER       -> [kind |-> "Ok", val |-> r]

\* ReadDiff with the error propagated (get_git_diff()?) instead of matched.
ReadDiff_Propagate ==
    /\ pc = "get_git_diff"
    /\ LET r == get_git_diff(repo) IN
       CASE r.kind = "panic" ->
              /\ Exit("panic")
              /\ stderr' = Append(stderr, <<"panicked: ", r.val>>)
              /\ UNCHANGED <<diff, stdout>>
         [] r.kind = "Err" ->
              /\ stderr' = Append(stderr, <<"Error: ", r.val>>)
              /\ Exit("failure")
              /\ UNCHANGED <<diff, stdout>>
         [] OTHER ->
              /\ diff' = r.val
              /\ pc' = "check_empty"
              /\ UNCHANGED <<outcome, stdout, stderr>>
    /\ UNCHANGED <<inputs, envKey, api_key, prompto, genState, message,
                   clipCalls, clipboard>>

\* main: let diff = match get_git_diff() { Ok(m) => m, Err(e) => {...} }
ReadDiff ==
    /\ pc = "get_git_diff"
    /\ LET r == get_git_diff(repo) IN
       CASE r.kind = "panic" ->
              /\ Exit("panic")
              /\ stderr' = Append(stderr, <<"panicked: ", r.val>>)
              /\ UNCHANGED <<diff, stdout>>
         [] r.kind = "Err" ->
              /\ stdout' = Append(stdout, <<"error get_git_diff ", r.val>>)
              /\ Exit("success")
              /\ UNCHANGED <<diff, stderr>>
         [] OTHER ->
              /\ diff' = r.val
              /\ pc' = "check_empty"
              /\ UNCHANGED <<outcome, stdout, stderr>>
    /\ UNCHANGED <<inputs, envKey, api_key, prompto, genState, message,
                   clipCalls, clipboard>>

\* CheckEmpty without the return: the line is printed and the run goes on.
CheckEmpty_NoReturn ==
    /\ pc = "check_empty"
    /\ IF diff = ""
       THEN stdout' = Append(stdout, <<"Nothing to commit">>)
       ELSE UNCHANGED stdout
    /\ pc' = "resolve_key"
    /\ UNCHANGED <<inputs, outcome, envKey, diff, api_key, prompto, genState,
                   message, stderr, clipCalls, clipboard>>

\* main: if diff == "" { println!("Nothing to commit"); return Ok(()); }
CheckEmpty ==
    /\ pc = "check_empty"
    /\ IF diff = ""
       THEN /\ stdout' = Append(stdout, <<"Nothing to commit">>)
            /\ Exit("success")
       ELSE /\ pc' = "resolve_key"
            /\ UNCHANGED <<outcome, stdout>>
    /\ UNCHANGED <<inputs, envKey, diff, api_key, prompto, genState, message,
                   stderr, clipCalls, clipboard>>

\* env::var("GEMINI_API_KEY"): Err when the variable is not set or is not
\* valid Unicode.
env_var(v) ==
    CASE v = None       -> [ok |-> FALSE, val |-> "environment variable not found"]
      [] v = NotUnicode -> [ok |-> FALSE, val |-> "environment variable was not valid unicode"]
      [] OTHER          -> [ok |-> TRUE, val |-> v]

\* ResolveKey with the environment consulted first.
ResolveKey_EnvFirst ==
    /\ pc = "resolve_key"
    /\ LET v == env_var(envKey) IN
       IF v.ok
       THEN /\ api_key' = v.val
            /\ pc' = "create_prompt"
            /\ UNCHANGED <<outcome, stdout>>
       ELSE IF Len(args) > 1
       THEN /\ api_key' = args[2]
            /\ pc' = "create_prompt"
            /\ UNCHANGED <<outcome, stdout>>
       ELSE /\ stdout' = Append(stdout, <<"make sure setting api key ", v.val>>)
            /\ Exit("success")
            /\ UNCHANGED api_key
    /\ UNCHANGED <<inputs, envKey, diff, prompto, genState, message, stderr,
                   clipCalls, clipboard>>

\* ResolveKey with an empty key in place of the early return.
ResolveKey_EmptyKey ==
    /\ pc = "resolve_key"
    /\ IF Len(args) > 1
       THEN /\ api_key' = args[2]
            /\ UNCHANGED stdout
       ELSE LET v == env_var(envKey) IN
            IF v.ok
            THEN /\ api_key' = v.val
                 /\ UNCHANGED stdout
            ELSE /\ stdout' = Append(stdout, <<"make sure setting api key ", v.val>>)
                 /\ api_key' = ""
    /\ pc' = "create_prompt"
    /\ UNCHANGED <<inputs, outcome, envKey, diff, prompto, genState, message,
                   stderr, clipCalls, clipboard>>

\* main: the api key is args[1] when there is one, else the variable.
ResolveKey ==
    /\ pc = "resolve_key"
    /\ IF Len(args) > 1
       THEN /\ api_key' = args[2]
            /\ pc' = "create_prompt"
            /\ UNCHANGED <<outcome, stdout>>
       ELSE LET v == env_var(envKey) IN
            IF v.ok
            THEN /\ api_key' = v.val
                 /\ pc' = "create_prompt"
                 /\ UNCHANGED <<outcome, stdout>>
            ELSE /\ stdout' = Append(stdout, <<"make sure setting api key ", v.val>>)
                 /\ Exit("success")
                 /\ UNCHANGED api_key
    /\ UNCHANGED <<inputs, envKey, diff, prompto, genState, message, stderr,
                   clipCalls, clipboard>>

\* -------------------------------------------------------- create_prompt
COMMIT_MESSAGE_GUIDELINE == "COMMIT_MESSAGE_GUIDELINE"

\* format!("{}\n\n---\n\n## Git Diff\n\n[fence]diff\n{}\n[fence]", GUIDELINE,
\* diff), where [fence] stands for the three backquotes of a code fence.
create_prompt(d) ==
    <<COMMIT_MESSAGE_GUIDELINE, "\n\n---\n\n## Git Diff\n\n[fence]diff\n", d,
      "\n[fence]">>

CreatePrompt ==
    /\ pc = "create_prompt"
    /\ prompto' = Some(create_prompt(diff))
    /\ pc' = "send"
    /\ UNCHANGED <<inputs, outcome, envKey, diff, api_key, genState, message,
                   stdout, stderr, clipCalls, clipboard>>

\* ------------------------------------------------ the remote endpoint
\* The statuses the endpoint can answer with.
Statuses == {200, 304, 404, 500}

\* error_for_status that takes only a server error for an error.
error_for_status_ServerOnly(st) == st >= 500 /\ st <= 599

\* reqwest's Response::error_for_status: Err for a client or server error
\* status (400..599), the response itself for every other status.
error_for_status(st) == st >= 400 /\ st <= 599

\* A response body on the wire.  json: it is JSON at all; has_candidates,
\* has_parts: the key is there.  An optional field that is missing or null
\* decodes to the absent value, so it is written here as decoded.
Part(t) == [text |-> t]

PartLists ==
    {<<>>} \cup
    {<<Part(t)>> \o rest : t \in Texts,
                          rest \in SeqsUpTo({Part(o) : o \in OtherTexts}, MaxParts - 1)}

WireContents ==
    {Nothing, Some([has_parts |-> FALSE, parts |-> <<>>])} \cup
    {Some([has_parts |-> TRUE, parts |-> p]) : p \in PartLists}

FinishReasons == {None, "SAFETY"}

FirstCandidates ==
    {[content |-> c, finish_reason |-> f, safety_ratings |-> None] :
        c \in WireContents, f \in FinishReasons}

OtherCandidates ==
    {[content |-> Nothing, finish_reason |-> "STOP", safety_ratings |-> None],
     [content |-> Some([has_parts |-> TRUE, parts |-> <<Part(<<"x">>)>>]),
      finish_reason |-> None, safety_ratings |-> "[]"]}

CandidateLists ==
    {<<>>} \cup
    {<<c>> \o rest : c \in FirstCandidates,
                     rest \in SeqsUpTo(OtherCandidates, MaxCands - 1)}

Feedbacks == {None, "{blockReason: SAFETY}"}

WireBodies ==
    {[json |-> FALSE, has_candidates |-> FALSE, candidates |-> <<>>,
      prompt_feedback |-> None]} \cup
    {[json |-> TRUE, has_candidates |-> FALSE, candidates |-> <<>>,
      prompt_feedback |-> f] : f \in Feedbacks} \cup
    {[json |-> TRUE, has_candidates |-> TRUE, candidates |-> cs,
      prompt_feedback |-> f] : cs \in CandidateLists, f \in Feedbacks}

\* ------------------------------------ Part / Content / Candidate / GeminiResponse
\* serde's derived Deserialize: a missing field of type Vec is an error, a
\* missing field of type Option is None.
ContentDecodes(c) == c = Nothing \/ c[1].has_parts

Content(c) == IF c = Nothing THEN Nothing ELSE Some([parts |-> c[1].parts])

Candidate(c) ==
    [content |-> Content(c.content), finish_reason |-> c.finish_reason,
     safety_ratings |-> c.safety_ratings]

\* response.json::<GeminiResponse>(): Nothing when the body does not decode.
GeminiResponse(w) ==
    IF /\ w.json
       /\ w.has_candidates
       /\ \A i \in 1..Len(w.candidates) : ContentDecodes(w.candidates[i].content)
    THEN Some([candidates |-> [i \in 1..Len(w.candidates) |-> Candidate(w.candidates[i])],
               prompt_feedback |-> w.prompt_feedback])
    ELSE Nothing

\* ------------------------------------------------------------ str::trim
is_whitespace(c) == c \in Whitespace

RECURSIVE trim_start(_)
trim_start(s) ==
    IF s # <<>> /\ is_whitespace(Head(s)) THEN trim_start(Tail(s)) ELSE s

RECURSIVE trim_end(_)
trim_end(s) ==
    IF s # <<>> /\ is_whitespace(s[Len(s)])
    THEN trim_end(SubSeq(s, 1, Len(s) - 1))
    ELSE s

\* trim that leaves the end alone.
trim_StartOnly(s) == trim_start(s)

trim(s) == trim_end(trim_start(s))

\* ------------------------------------------------ generate_commit_message
\* slice::get with the index counted from zero.
get(s, i) == IF i + 1 <= Len(s) THEN Some(s[i + 1]) ELSE Nothing

\* body.candidates.get(0).and_then(|c| c.content.as_ref())
\*     .and_then(|content| content.parts.get(0))
\*     .map(|part| part.text.trim().to_string())
commit_message(b) ==
    LET c == get(b.candidates, 0)
        content == IF c = Nothing THEN Nothing ELSE c[1].content
        part == IF content = Nothing THEN Nothing ELSE get(content[1].parts, 0)
    IN  IF part = Nothing THEN Nothing ELSE Some(trim(part[1].text))

\* The placeholder of the source is Japanese for "unknown (candidates is
\* empty or the structure is invalid)".
UnknownReason == "unknown (candidates empty or malformed)"

\* reason that reads the last candidate (candidates.last()) for the first.
reason_LastCandidate(b) ==
    LET c == IF b.candidates = <<>> THEN Nothing
             ELSE Some(b.candidates[Len(b.candidates)])
        r == IF c = Nothing THEN None ELSE c[1].finish_reason
    IN  IF r = None THEN UnknownReason ELSE r

\* body.candidates.get(0).and_then(|c| c.finish_reason.as_ref())
\*     .unwrap_or(&placeholder)
reason(b) ==
    LET c == get(b.candidates, 0)
        r == IF c = Nothing THEN None ELSE c[1].finish_reason
    IN  IF r = None THEN UnknownReason ELSE r

\* body.prompt_feedback.map(|f| format!("Prompt Feedback: {:?}", f))
\*     .unwrap_or_else(|| "No Prompt Feedback".to_string())
feedback_info(b) ==
    IF b.prompt_feedback = None
    THEN <<"No Prompt Feedback">>
    ELSE <<"Prompt Feedback: ", b.prompt_feedback>>

\* The text of the error of the None arm, piece by piece.
NoTextError(b) ==
    <<"Gemini API returned no valid text.\n", "cause: finish_reason='",
      reason(b), "'\n", "detail: ">> \o feedback_info(b)

Ok(v) == Some([ok |-> TRUE, val |-> v])
Err(e) == Some([ok |-> FALSE, val |-> e])

\* match commit_message { Some(text) => Ok(text), None => Err(...) }
extract(b) ==
    LET m == commit_message(b)
    IN  IF m # Nothing THEN Ok(m[1]) ELSE Err(NoTextError(b))

URL_BASE ==
    "https://generativelanguage.googleapis.com/v1beta/models/gemini-2.5-flash:generateContent?key="

\* The POST of the generator: the url with the key, the payload with the
\* prompt.
Request(prompt, key) ==
    [url |-> <<URL_BASE, key>>,
     payload |-> [contents |-> <<[parts |-> <<[text |-> prompt]>>]>>]]

\* client.post(&url).json(&payload).send().await?.error_for_status()?
\* The request goes out; the exchange fails, or the endpoint answers.
Send ==
    /\ pc = "send"
    /\ requests' = Append(requests, Request(prompto[1], api_key))
    /\ \/ /\ result' = Err(<<"error sending request">>)
          /\ pc' = "gen_return"
          /\ UNCHANGED response
       \/ \E st \in Statuses :
            /\ response' = Some(st)
            /\ IF error_for_status(st)
               THEN /\ result' = Err(<<"HTTP status error ", st>>)
                    /\ pc' = "gen_return"
               ELSE /\ pc' = "json"
                    /\ UNCHANGED result
    /\ UNCHANGED <<inputs, outcome, envKey, diff, api_key, prompto, bodyReads,
                   body, message, stdout, stderr, clipCalls, clipboard>>

\* let body: GeminiResponse = response.json().await?; and the extraction
\* that follows it, up to the value the function returns.
ReadBody ==
    /\ pc = "json"
    /\ bodyReads' = bodyReads + 1
    /\ \E w \in WireBodies :
         LET b == GeminiResponse(w) IN
         IF b = Nothing
         THEN /\ result' = Err(<<"error decoding response body">>)
              /\ UNCHANGED body
         ELSE /\ body' = b
              /\ result' = extract(b[1])
    /\ pc' = "gen_return"
    /\ UNCHANGED <<inputs, outcome, envKey, diff, api_key, prompto, requests,
                   response, message, stdout, stderr, clipCalls, clipboard>>

\* main: let message = generate_commit_message(&prompto, api_key).await?;
\* The generator's locals are gone once it has returned.
GenReturn ==
    /\ pc = "gen_return"
    /\ body' = Nothing
    /\ IF result[1].ok
       THEN /\ message' = Some(result[1].val)
            /\ pc' = "print"
            /\ UNCHANGED <<outcome, stderr>>
       ELSE /\ Exit("failure")
            /\ stderr' = Append(stderr, <<"Error: ">> \o result[1].val)
            /\ UNCHANGED message
    /\ UNCHANGED <<inputs, envKey, diff, api_key, prompto, requests, response,
                   bodyReads, result, stdout, clipCalls, clipboard>>

\* ----------------------------------------------------- println!("{:?}")
\* <str as Debug>::fmt: the text between double quotes, a line feed written
\* as backslash and n.
RECURSIVE escape_debug(_)
escape_debug(s) ==
    IF s = <<>> THEN <<>>
    ELSE (IF Head(s) = "\n" THEN <<"\\", "n">> ELSE <<Head(s)>>)
         \o escape_debug(Tail(s))

fmt_debug(s) == <<"\"">> \o escape_debug(s) \o <<"\"">>

\* main: println!("{:?}", message);
PrintMessage ==
    /\ pc = "print"
    /\ stdout' = Append(stdout, fmt_debug(message[1]))
    /\ pc' = "copy_to_clip"
    /\ UNCHANGED <<inputs, outcome, envKey, diff, api_key, prompto, genState,
                   message, stderr, clipCalls, clipboard>>

\* CopyToClip with the error propagated (copy_to_clip(&message)?).
CopyToClip_Propagate ==
    /\ pc = "copy_to_clip"
    /\ clipCalls' = Append(clipCalls, message[1])
    /\ \/ /\ clipboard' = message
          /\ stdout' = Append(stdout, <<"success to copy to clip">>)
          /\ Exit("success")
          /\ UNCHANGED stderr
       \/ /\ stderr' = Append(stderr, <<"Error: ", "clipboard error">>)
          /\ Exit("failure")
          /\ UNCHANGED <<stdout, clipboard>>
    /\ UNCHANGED <<inputs, envKey, diff, api_key, prompto, genState, message>>

\* CopyToClip handed the text as it was printed instead of the message.
CopyToClip_Formatted ==
    /\ pc = "copy_to_clip"
    /\ clipCalls' = Append(clipCalls, fmt_debug(message[1]))
    /\ \/ /\ clipboard' = Some(fmt_debug(message[1]))
          /\ stdout' = Append(stdout, <<"success to copy to clip">>)
          /\ UNCHANGED stderr
       \/ /\ stderr' = Append(stderr, <<"fail to copy to clip ", "clipboard error">>)
          /\ UNCHANGED <<stdout, clipboard>>
    /\ Exit("success")
    /\ UNCHANGED <<inputs, envKey, diff, api_key, prompto, genState, message>>

\* main: match copy_to_clip(&message) {...}; Ok(())
\* copy_to_clip fails when the clipboard cannot be opened or set.
CopyToClip ==
    /\ pc = "copy_to_clip"
    /\ clipCalls' = Append(clipCalls, message[1])
    /\ \/ /\ clipboard' = message
          /\ stdout' = Append(stdout, <<"success to copy to clip">>)
          /\ UNCHANGED stderr
       \/ /\ stderr' = Append(stderr, <<"fail to copy to clip ", "clipboard error">>)
          /\ UNCHANGED <<stdout, clipboard>>
    /\ Exit("success")
    /\ UNCHANGED <<inputs, envKey, diff, api_key, prompto, genState, message>>

Next ==
    \/ LoadEnv
    \/ ReadDiff
    \/ CheckEmpty
    \/ ResolveKey
    \/ CreatePrompt
    \/ Send
    \/ ReadBody
    \/ GenReturn
    \/ PrintMessage
    \/ CopyToClip

Spec == Init /\ [][Next]_vars

\* =================================================================
\* Properties
\* =================================================================
Range(s) == {s[i] : i \in 1..Len(s)}

\* The line that println!("{:?}", message) prints is the only one that
\* starts with a double quote.
IsMessageLine(l) == l[1] = "\""
MessageLines == {i \in 1..Len(stdout) : IsMessageLine(stdout[i])}
Printed == MessageLines # {}

\* C1: when the Diff Reader returns the empty string, the run ends with
\* success at the very next step, no request is issued, no body is read and
\* copy_to_clip is not called, whether or not a credential is there.
C1_EmptyDiffShortCircuits ==
    diff = "" =>
        /\ pc \in {"check_empty", "done"}
        /\ outcome = (IF pc = "done" THEN "success" ELSE "running")
        /\ pc = "done" => stdout = <<<<"Nothing to commit">>>>
        /\ requests = <<>>
        /\ bodyReads = 0
        /\ result = Nothing
        /\ clipCalls = <<>>
        /\ clipboard = Nothing

C1_Witness ==
    /\ diff = ""
    /\ pc = "done"
    /\ outcome = "success"
    /\ Len(args) > 1

\* C2: the credential main resolves, and the one every request carries, is
\* the first command-line argument when there is one, whatever the
\* environment holds, and the value of GEMINI_API_KEY otherwise.
C2_ArgumentBeforeEnvironment ==
    LET expected == IF Len(args) > 1 THEN args[2] ELSE envKey IN
    /\ api_key # None => api_key = expected
    /\ \A i \in 1..Len(requests) : requests[i].url = <<URL_BASE, expected>>

C2_Witness ==
    /\ Len(args) > 1
    /\ envKey \notin {None, NotUnicode}
    /\ envKey # args[2]
    /\ requests # <<>>

\* C3: when there is no environment file the run is not aborted by that:
\* it goes on to read the diff.
EnvFilePanic == <<"panicked: ", ".env file not fount">>

C3_NoEnvFileIsNotFatal ==
    envFile = NoFile => EnvFilePanic \notin Range(stderr)

\* C4: the Diff Reader has returned an error (not a panic).
DiffReaderFailed ==
    /\ get_git_diff(repo).kind = "Err"
    /\ envFile \notin {NoFile, BadFile}
    /\ pc \notin {"dotenv", "get_git_diff"}

DiffErrorReported ==
    /\ pc = "done"
    /\ stdout = <<<<"error get_git_diff ", get_git_diff(repo).val>>>>
    /\ requests = <<>>
    /\ bodyReads = 0
    /\ clipCalls = <<>>

\* C4 as claimed: when the Diff Reader fails with a non-panic error, the
\* error is reported, generator and clipboard writer are never invoked, and
\* the process reports failure.
C4_DiffErrorFails ==
    DiffReaderFailed => (DiffErrorReported /\ outcome = "failure")

\* C4 as amended: when the Diff Reader fails with a non-panic error, the
\* error is reported, generator and clipboard writer are never invoked, and
\* the process reports success.
C4_DiffErrorEndsInSuccess ==
    DiffReaderFailed => (DiffErrorReported /\ outcome = "success" /\ stderr = <<>>)

C4_Witness ==
    /\ DiffReaderFailed
    /\ repo = BadUtf8
    /\ pc = "done"

\* C5: what the claim says follows such an answer: that one request, no
\* body decoded, no message, nothing printed or written to the clipboard,
\* and failure once the run has ended.
StatusAborts ==
    /\ Len(requests) = 1
    /\ bodyReads = 0
    /\ body = Nothing
    /\ message = Nothing
    /\ ~Printed
    /\ clipCalls = <<>>
    /\ outcome = (IF pc = "done" THEN "failure" ELSE "running")

\* C5 as claimed: when the endpoint answers with a non-success status (any
\* status outside 200..299), the generator returns an error without decoding
\* the body and without a second request, and the run ends in failure with
\* no message printed and no clipboard write.
C5_NonSuccessStatusAborts ==
    (response # Nothing /\ ~(response[1] >= 200 /\ response[1] <= 299))
        => StatusAborts

\* C5 as amended: when the endpoint answers with a client-error or
\* server-error status (400..599), the generator returns an error without
\* decoding the body and without a second request, and the run ends in
\* failure with no message printed and no clipboard write.
C5_ErrorStatusAborts ==
    (response # Nothing /\ response[1] >= 400 /\ response[1] <= 599) =>
        /\ StatusAborts
        /\ pc \in {"gen_return", "done"}
        /\ result = Err(<<"HTTP status error ", response[1]>>)

C5_Witness ==
    /\ response = Some(404)
    /\ pc = "done"
    /\ outcome = "failure"

\* C6: once copy_to_clip has been called the run has ended in success,
\* whether the write failed or not, and the message was printed first; a
\* failed write differs only in the warning that replaces the success line.
C6_ClipboardFailureIsNotFatal ==
    clipCalls # <<>> =>
        /\ pc = "done"
        /\ outcome = "success"
        /\ stdout[1] = fmt_debug(message[1])
        /\ \/ /\ clipboard = message
              /\ stdout = <<fmt_debug(message[1]), <<"success to copy to clip">>>>
              /\ stderr = <<>>
           \/ /\ clipboard = Nothing
              /\ stdout = <<fmt_debug(message[1])>>
              /\ stderr = <<<<"fail to copy to clip ", "clipboard error">>>>

C6_Witness ==
    /\ clipCalls # <<>>
    /\ clipboard = Nothing
    /\ outcome = "success"

\* C7: with a non-empty diff read, no command-line argument and no usable
\* GEMINI_API_KEY, the run prints the guidance line and ends in success; no
\* prompt is built, no request issued, no clipboard write made.
NoCredential ==
    /\ diff \notin {None, ""}
    /\ Len(args) <= 1
    /\ envKey \in {None, NotUnicode}
    /\ pc \notin {"check_empty", "resolve_key"}

C7_NoCredentialIsASoftStop ==
    NoCredential =>
        /\ pc = "done"
        /\ outcome = "success"
        /\ Len(stdout) = 1
        /\ stdout[1][1] = "make sure setting api key "
        /\ stderr = <<>>
        /\ api_key = None
        /\ prompto = Nothing
        /\ requests = <<>>
        /\ clipCalls = <<>>

C7_Witness ==
    /\ NoCredential
    /\ envKey = NotUnicode
    /\ pc = "done"

\* t is r between a run of whitespace and a run of whitespace, and r neither
\* starts nor ends with whitespace.
IsTrimOf(r, t) ==
    /\ r # <<>> => (r[1] \notin Whitespace /\ r[Len(r)] \notin Whitespace)
    /\ \E i \in 0..Len(t) :
         /\ i + Len(r) <= Len(t)
         /\ r = SubSeq(t, i + 1, i + Len(r))
         /\ \A k \in 1..Len(t) :
              (k <= i \/ k > i + Len(r)) => t[k] \in Whitespace

HasFirstPart(b) ==
    /\ Len(b.candidates) >= 1
    /\ b.candidates[1].content # Nothing
    /\ Len(b.candidates[1].content[1].parts) >= 1

\* C8: for a decoded response, extraction succeeds exactly when candidate 0
\* exists, has content, and the content has a part; the message is then the
\* text of part 0 of candidate 0 without its leading and trailing
\* whitespace, the rest of it unchanged.
C8_ExtractionIsFirstPartTrimmed ==
    body # Nothing =>
        /\ result # Nothing
        /\ result[1].ok <=> HasFirstPart(body[1])
        /\ result[1].ok =>
             IsTrimOf(result[1].val, body[1].candidates[1].content[1].parts[1].text)

C8_Witness ==
    /\ body # Nothing
    /\ Len(body[1].candidates) = 2
    /\ HasFirstPart(body[1])
    /\ Len(body[1].candidates[1].content[1].parts) = 2
    /\ body[1].candidates[1].content[1].parts[1].text = <<"\n", "f", " ", "f">>
    /\ result = Ok(<<"f", " ", "f">>)

\* C9: when extraction fails the generator returns an error whose text
\* carries the finish reason of candidate 0, or the placeholder when there
\* is no candidate 0 or it has none, and the rendering of the prompt
\* feedback, or the placeholder when there is none; the error ends the run
\* in failure.
ExtractionFailed == result # Nothing /\ ~result[1].ok /\ bodyReads = 1

C9_DiagnosticOnFailedExtraction ==
    /\ (body # Nothing /\ ~result[1].ok) =>
         LET b == body[1]
             e == result[1].val
             first == Len(b.candidates) >= 1 /\ b.candidates[1].finish_reason # None
         IN  /\ Len(e) >= 6
             /\ e[3] = (IF first THEN b.candidates[1].finish_reason ELSE UnknownReason)
             /\ SubSeq(e, 6, Len(e)) =
                   (IF b.prompt_feedback # None
                    THEN <<"Prompt Feedback: ", b.prompt_feedback>>
                    ELSE <<"No Prompt Feedback">>)
             /\ b.candidates = <<>> =>
                   /\ e[3] = UnknownReason
                   /\ (e[6] = "No Prompt Feedback") <=> (b.prompt_feedback = None)
    /\ (ExtractionFailed /\ pc # "gen_return") =>
         /\ pc = "done"
         /\ outcome = "failure"
         /\ stderr = <<<<"Error: ">> \o result[1].val>>
         /\ ~Printed
         /\ clipCalls = <<>>

C9_Witness ==
    /\ body # Nothing
    /\ ~result[1].ok
    /\ Len(body[1].candidates) = 2
    /\ body[1].candidates[1].finish_reason = "SAFETY"
    /\ body[1].prompt_feedback # None

\* C10, the states: each stage has happened at most once, and only with
\* what the earlier stages produced.
C10_State ==
    /\ Len(requests) <= 1
    /\ bodyReads <= 1
    /\ Cardinality(MessageLines) <= 1
    /\ Len(clipCalls) <= 1
    /\ requests # <<>> =>
         /\ diff \notin {None, ""}
         /\ api_key # None
         /\ requests[1] = Request(create_prompt(diff), api_key)
    /\ Printed =>
         /\ result # Nothing
         /\ result[1].ok
         /\ message = Some(result[1].val)
         /\ MessageLines = {1}
         /\ stdout[1] = fmt_debug(message[1])
    /\ clipCalls # <<>> =>
         /\ Printed
         /\ clipCalls = <<message[1]>>
         /\ stdout[1] = fmt_debug(clipCalls[1])
         /\ clipboard \in {Nothing, Some(clipCalls[1])}

\* C10, the steps: a request goes out before anything is printed; the
\* message is printed after the generator returned it and before the
\* clipboard is touched; the clipboard is written after the print.
C10_Step ==
    /\ requests' # requests =>
         (requests = <<>> /\ prompto # Nothing /\ stdout = <<>> /\ clipCalls = <<>>)
    /\ (Printed' /\ ~Printed) =>
         (requests # <<>> /\ message # Nothing /\ clipCalls' = <<>>)
    /\ clipCalls' # clipCalls =>
         (Printed /\ clipCalls = <<>> /\ stdout[1] = fmt_debug(clipCalls'[1]))

\* C10: in every run the stages happen at most once each and in order: one
\* request at most, after a non-empty diff and a credential; the message
\* printed only once the generator returned it; the clipboard written at
\* most once, after the print, with the message that was printed.
C10_StagesOnceAndInOrder == [](C10_State) /\ [][C10_Step]_vars

C10_Witness ==
    /\ Len(requests) = 1
    /\ Printed
    /\ Len(clipCalls) = 1
    /\ clipboard = Some(<<"f", "\n", "f">>)
    /\ pc = "done"

====
